---- MODULE Spec2Model ----
(***************************************************************************)
(* A model of the kudzu concurrent skip list (src/src/skiplist).           *)
(*                                                                         *)
(* The heap is the head lane array of the SkipList plus one record per     *)
(* allocated Node.  Lane arrays are indexed as in the source: index 0 is   *)
(* the highest lane of its owner and the last index is the bottom lane.    *)
(* Every atomic load, store and compare_and_swap of insert and get is one  *)
(* step of the thread that performs it; the thread-local computation       *)
(* between two shared accesses is part of the step that follows it.        *)
(***************************************************************************)
EXTENDS Integers, Sequences, FiniteSets, TLC

\* ------------------------------------------------------------------ bounds
\* MAX_HEIGHT is 31 in the source (skiplist/mod.rs:16); the model scales it.
MAX_HEIGHT == 2
\* number of threads that call insert concurrently
NumThreads == 2
\* total number of calls (insert or get) made over the whole run
MaxCalls == 3
\* at most this many of the calls are read calls (get, elems)
MaxGets == 1
\* number of insert calls in the runs checked for progress
LiveCalls == 2
\* keys are 1..MaxKey
MaxKey == 3

Threads == 1..NumThreads
Keys    == 1..MaxKey
\* A node is named by the insert call that allocated it.
NodeIds == 1..MaxCalls

\* the null pointer, and the owner index that stands for the SkipList head
NULL == 0
HEAD == 0
\* a spot whose predecessor pointer is ptr::null()
NullSlot == <<-1, -1>>

VARIABLES
  head,            \* SkipList.lanes: [0..MAX_HEIGHT-1 -> node id or NULL]
  current_height,  \* the AtomicU8 handed to insert as max_height
  nodes,           \* [NodeIds -> Node record]; state "none" before alloc
  ncalls,          \* number of insert calls started so far
  ins,             \* [Threads -> locals of the insert call in flight]
  keyOf,           \* [NodeIds -> key passed to that insert call, 0 if not started]
  result,          \* [NodeIds -> "none" | "Inserted" | "AlreadyPresent"]
  retElem,         \* [NodeIds -> element handed back by AlreadyPresent, or NoElem]
  callThread,      \* [NodeIds -> thread that made that insert call, 0 if not started]
  dupCalls,        \* the insert calls made while an Equal element was linked
  get,             \* [Threads -> locals and outcome of the thread's get call]
  ngets,           \* number of read calls (get, elems) started so far
  life,            \* "shared", or the progress of drop / into_elems
  cursor,          \* the ptr field of NodesMut (drop) or IntoElems (drain)
  yielded,         \* the elements IntoElems::next has returned, in order
  destroyed,       \* [NodeIds -> destructor runs by the list on that element]
  elemsIt,         \* an Elems iterator over the list, and what it returned
  setIter          \* a merge iterator over two Sets, and what it returned

vars == <<head, current_height, nodes, ncalls, ins, keyOf, result, retElem,
          callThread, dupCalls, get, ngets, life, cursor, yielded, destroyed,
          elemsIt, setIter>>

insVars  == <<ncalls, keyOf, callThread, dupCalls>>
getVars  == <<get, ngets>>
dropVars == <<life, cursor, yielded, destroyed>>
iterVars == <<elemsIt, setIter>>

\* ------------------------------------------------------------- elements
\* An element is a key (what the comparator looks at) and an identity (the
\* insert call that supplied it), so that two Equal elements can be told apart.
NoElem == [key |-> 0, id |-> 0]
MkElem(k, c) == [key |-> k, id |-> c]

\* AbstractOrd::cmp for T: Ord, on the key
Cmp(a, b) == IF a < b THEN "Less" ELSE IF a > b THEN "Greater" ELSE "Equal"

\* (variant: the derived lexicographic order on the pair (K, V))
KeyValueCmpWithValue(a, b) ==
  IF a.key # b.key THEN Cmp(a.key, b.key) ELSE Cmp(a.id, b.id)

\* AbstractOrd<KeyValue<K, V>> for KeyValue<K, V>: Ord::cmp(&self.0, &rhs.0).
\* An element is the entry (key, id): id stands for the value V of a Map
\* (for a Set or a bare SkipList of integers the element is its key).
KeyValueCmp(a, b) == Cmp(a.key, b.key)

\* Map::insert, the closure applied to Some: the rejected (k, v) handed back
MapInsertReturn(e) == <<e.key, e.id>>

\* Map::get, the closure applied to Some: |KeyValue(_, v)| v; 0 is None
MapGetValue(e) == e.id

\* ----------------------------------------------------------------- nodes
NoNode == [state |-> "none", elem |-> NoElem, height |-> 0,
           lanes |-> [i \in {} |-> NULL], frees |-> 0]

\* Node::alloc: zeroed memory (all lanes null), height byte, element moved in
NodeAlloc(e, h) == [state |-> "live", elem |-> e, height |-> h,
                    lanes |-> [i \in 0..(h - 1) |-> NULL], frees |-> 0]

\* Node::dealloc on node n: the block is freed; the element is read out
NodeDealloc(ns, n) == [ns EXCEPT ![n].state = "freed", ![n].frees = @ + 1]

\* the number of lane slots of an owner (HEAD or a node)
OwnerHeight(ns, o) == IF o = HEAD THEN MAX_HEIGHT ELSE ns[o].height

\* atomic_ptr.load on the slot <<owner, index>>
LoadSlot(hd, ns, s) == IF s[1] = HEAD THEN hd[s[2]] ELSE ns[s[1]].lanes[s[2]]

\* A slice of a lane array is <<owner, start>>: the slots start..height-1.
SliceLen(ns, sl) == OwnerHeight(ns, sl[1]) - sl[2]

\* Node::next: the last lane of the node, its bottom lane
\* (variant: lanes().first(), the node's highest lane)
NodeNextTopLane(ns, n) == ns[n].lanes[0]

NodeNext(ns, n) == ns[n].lanes[ns[n].height - 1]

\* SkipList::first: the head of the bottom lane
\* (variant: self.lanes[0], the head of the highest lane)
FirstTopLane(hd) == hd[0]

First(hd) == hd[MAX_HEIGHT - 1]

\* a store / successful compare_and_swap of v into the slot s
HeadAfter(hd, s, v)  == IF s[1] = HEAD THEN [hd EXCEPT ![s[2]] = v] ELSE hd
NodesAfter(ns, s, v) == IF s[1] = HEAD THEN ns ELSE [ns EXCEPT ![s[1]].lanes[s[2]] = v]

\* the ascending enumeration of a finite set of integers
RECURSIVE Ascending(_)
Ascending(S) ==
  IF S = {} THEN <<>>
  ELSE LET m == CHOOSE x \in S : \A y \in S : x <= y
       IN  <<m>> \o Ascending(S \ {m})

\* ------------------------------------------------------------ iteration
\* Nodes::next repeated from ptr: the nodes of the bottom lane, in order
RECURSIVE NodesFrom(_, _, _)
NodesFrom(ns, ptr, fuel) ==
  IF ptr = NULL \/ fuel = 0 THEN <<>>
  ELSE <<ptr>> \o NodesFrom(ns, NodeNext(ns, ptr), fuel - 1)

\* SkipList::elems collected: fuel MaxCalls + 1 shows a cycle as an
\* overlong sequence
ElemsOf(hd, ns) ==
  LET s == NodesFrom(ns, First(hd), MaxCalls + 1)
  IN  [i \in 1..Len(s) |-> ns[s[i]].elem]

Elems == ElemsOf(head, nodes)

\* an element Equal to key is linked into the bottom lane
KeyLinked(hd, ns, key) ==
  \E i \in 1..Len(ElemsOf(hd, ns)) : ElemsOf(hd, ns)[i].key = key

\* ---------------------------------------------------------------- insert
\* spots = [(ptr::null(), ptr::null_mut()); MAX_HEIGHT]
NoSpots == [i \in 0..(MAX_HEIGHT - 1) |-> [pred |-> NullSlot, succ |-> NULL]]

\* the locals of skiplist::insert::insert; pc is the next shared access
IdleIns == [pc |-> "idle", call |-> 0, elem |-> NoElem, elem_ptr |-> "stack",
            new_node |-> NULL, inserted |-> 0, highest_insert |-> 0,
            init_lanes |-> <<HEAD, 0>>, lanes |-> <<HEAD, 0>>, it |-> 0,
            height |-> 0, spots |-> NoSpots, k |-> 0]

Min(a, b) == IF a < b THEN a ELSE b

\* (variant: max_height.store(height) in place of fetch_max)
MaxStore(a, b) == b

\* (variant: the fetch_max left out)
MaxKeepsOld(a, b) == a

\* max_height.fetch_max(height, Relaxed): the value left in max_height
Max(a, b) == IF a > b THEN a ELSE b

\* the splice for loop, about to take item k of
\* new_node_lanes.iter().rev().zip(&spots): ends at the shorter of the two
SpliceNext(ns, L) ==
  IF L.k < Min(ns[L.new_node].height, MAX_HEIGHT)
    THEN [L EXCEPT !.pc = "store"]
    ELSE [L EXCEPT !.pc = "ret_inserted"]

\* (variant: the splice of a retry starts at .skip(inserted + 1))
AfterWalkSkipsOne(ns, L) ==
  IF L.new_node = NULL
    THEN [L EXCEPT !.pc = "alloc"]
    ELSE SpliceNext(ns, [L EXCEPT !.k = L.inserted + 1])

\* (variant: the splice of a retry starts again at the bottom lane)
AfterWalkFromBottom(ns, L) ==
  IF L.new_node = NULL
    THEN [L EXCEPT !.pc = "alloc"]
    ELSE SpliceNext(ns, [L EXCEPT !.k = 0])

\* the code after the 'across loop: allocate if new_node is None, then
\* start the splice loop at .skip(inserted)
AfterWalk(ns, L) ==
  IF L.new_node = NULL
    THEN [L EXCEPT !.pc = "alloc"]
    ELSE SpliceNext(ns, [L EXCEPT !.k = L.inserted])

\* 'across: while height > inserted { 'down: for atomic_ptr in lanes {
WhileAcross(ns, L) ==
  IF L.height > L.inserted
    THEN IF SliceLen(ns, L.lanes) > 0
           THEN [L EXCEPT !.pc = "load", !.it = L.lanes[2]]
           ELSE [L EXCEPT !.pc = "spin"]
    ELSE AfterWalk(ns, L)

\* continue 'down: the for loop takes the next slot of the same lane array
ContinueDown(ns, L) ==
  IF L.it + 1 < OwnerHeight(ns, L.lanes[1])
    THEN [L EXCEPT !.pc = "load", !.it = L.it + 1]
    ELSE WhileAcross(ns, [L EXCEPT !.it = L.it + 1])

\* (variant: the None and Less arms go down without spots[height] = ...)
DescendSkipsSpot(ns, L, slot, succ) ==
  IF L.height = 0
    THEN [L EXCEPT !.pc = "panic"]
    ELSE ContinueDown(ns,
           [L EXCEPT !.init_lanes = IF L.height = L.highest_insert
                                      THEN L.lanes ELSE @,
                     !.height = L.height - 1])

\* the None and Less arms: remember the lanes to restart from, go down one
\* lane and record the spot (slot, successor) of the lane just left
Descend(ns, L, slot, succ) ==
  IF L.height = 0
    THEN [L EXCEPT !.pc = "panic"]
    ELSE ContinueDown(ns,
           [L EXCEPT !.init_lanes = IF L.height = L.highest_insert
                                      THEN L.lanes ELSE @,
                     !.height = L.height - 1,
                     !.spots[L.height - 1] = [pred |-> slot, succ |-> succ]])

\* the Greater arm: lanes = &node.lanes()[(node.height() - height)..]
StepAcross(ns, L, n) ==
  IF ns[n].height < L.height
    THEN [L EXCEPT !.pc = "panic"]
    ELSE WhileAcross(ns, [L EXCEPT !.lanes = <<n, ns[n].height - L.height>>])

\* (variant: new_node is declared inside 'retry, so a retry takes the
\* element back and allocates again)
RetryForgetsNode(ns, L) ==
  WhileAcross(ns, [L EXCEPT !.lanes = L.init_lanes,
                            !.height = SliceLen(ns, L.init_lanes),
                            !.spots = NoSpots,
                            !.elem = IF L.new_node = NULL
                                       THEN L.elem ELSE ns[L.new_node].elem,
                            !.elem_ptr = "stack",
                            !.new_node = NULL])

\* 'retry: loop { lanes = init_lanes; height = lanes.len(); spots = null
Retry(ns, L) ==
  WhileAcross(ns, [L EXCEPT !.lanes = L.init_lanes,
                            !.height = SliceLen(ns, L.init_lanes),
                            !.spots = NoSpots])

\* (variant: a failed CAS is tried again on the spots already recorded)
CasFailedNoSearch(ns, L) == [L EXCEPT !.pc = "store"]

\* the false arm of the CAS match: continue 'retry
CasFailed(ns, L) == Retry(ns, L)

\* elem_ptr.as_ref(): the element on the stack or the one in the new node
ElemRef(ns, L) == IF L.elem_ptr = "stack" THEN L.elem ELSE ns[L.new_node].elem

\* (variant: Equal handled by the Greater arm)
EqualArmAsGreater(ns, L, slot, ptr) == StepAcross(ns, L, ptr)

\* (variant: Equal handled by the Less arm)
EqualArmAsLess(ns, L, slot, ptr) == Descend(ns, L, slot, ptr)

\* (variant: the guard inserted > 0 left out)
EqualArmNoGuard(ns, L, slot, ptr) == AfterWalk(ns, L)

\* (variant: Equal always returns the element, the guard arm left out)
EqualArmAlwaysPresent(ns, L, slot, ptr) == [L EXCEPT !.pc = "ret_present"]

\* the two Equal arms, element against the node ptr loaded from slot:
\* inserted > 0: our own partially linked node, stop searching;
\* otherwise the element is already in the list and is handed back
EqualArm(ns, L, slot, ptr) ==
  IF L.inserted > 0
    THEN AfterWalk(ns, L)
    ELSE [L EXCEPT !.pc = "ret_present"]

\* one iteration of the 'down loop body: load the slot, match on it
WalkStep(hd, ns, L) ==
  LET slot == <<L.lanes[1], L.it>>
      ptr  == LoadSlot(hd, ns, slot)
  IN  IF ptr = NULL
        THEN Descend(ns, L, slot, NULL)
      ELSE IF ns[ptr].state # "live"
                \/ (L.elem_ptr = "heap" /\ ns[L.new_node].state # "live")
        THEN [L EXCEPT !.pc = "ub"]
      ELSE CASE KeyValueCmp(ElemRef(ns, L), ns[ptr].elem) = "Equal" ->
                  EqualArm(ns, L, slot, ptr)
             [] KeyValueCmp(ElemRef(ns, L), ns[ptr].elem) = "Less" ->
                  Descend(ns, L, slot, ptr)
             [] KeyValueCmp(ElemRef(ns, L), ns[ptr].elem) = "Greater" ->
                  StepAcross(ns, L, ptr)

\* (variant: always ManuallyDrop::take(&mut elem), also after the move)
PresentElemFromStack(ns, L) == L.elem

\* the element insert returns in Some: new_node.dealloc() when a node was
\* allocated, ManuallyDrop::take(&mut elem) otherwise
PresentElem(ns, L) ==
  IF L.new_node # NULL THEN ns[L.new_node].elem ELSE L.elem

\* (variant: a plain store in place of the compare_and_swap)
CasBlindStore(hd, ns, pred, succ) == TRUE

\* succ == pred.compare_and_swap(succ, new_node_addr, AcqRel)
CasSucceeds(hd, ns, pred, succ) == LoadSlot(hd, ns, pred) = succ

\* The call of thread t leaves its step with locals L2 on the heap hd2, ns2.
\* A return of None is reported as Inserted; a return of Some(e) as
\* AlreadyPresent with e, after new_node.dealloc() when a node was allocated.
Commit(t, L2, hd2, ns2) ==
  /\ head' = hd2
  /\ IF L2.pc = "ret_inserted"
       THEN /\ nodes' = ns2
            /\ result' = [result EXCEPT ![L2.call] = "Inserted"]
            /\ retElem' = retElem
            /\ ins' = [ins EXCEPT ![t] = IdleIns]
     ELSE IF L2.pc = "ret_present"
       THEN /\ nodes' = IF L2.new_node # NULL
                          THEN NodeDealloc(ns2, L2.new_node) ELSE ns2
            /\ result' = [result EXCEPT ![L2.call] = "AlreadyPresent"]
            /\ retElem' = [retElem EXCEPT ![L2.call] = PresentElem(ns2, L2)]
            /\ ins' = [ins EXCEPT ![t] = IdleIns]
     ELSE /\ nodes' = ns2
          /\ ins' = [ins EXCEPT ![t] = L2]
          /\ UNCHANGED <<result, retElem>>

\* SkipList::insert is called with element key: the locals of insert are
\* set up and the first 'retry iteration reaches its first load
InsertStart(t, key) ==
  /\ life = "shared"
  /\ ins[t].pc = "idle" /\ get[t].pc = "idle"
  /\ ncalls + ngets < MaxCalls
  /\ ncalls' = ncalls + 1
  /\ keyOf' = [keyOf EXCEPT ![ncalls + 1] = key]
  /\ callThread' = [callThread EXCEPT ![ncalls + 1] = t]
  /\ dupCalls' = IF KeyLinked(head, nodes, key)
                   THEN dupCalls \cup {ncalls + 1} ELSE dupCalls
  /\ Commit(t, Retry(nodes, [IdleIns EXCEPT !.call = ncalls + 1,
                                            !.elem = MkElem(key, ncalls + 1),
                                            !.init_lanes = <<HEAD, 0>>,
                                            !.highest_insert = MAX_HEIGHT]),
            head, nodes)
  /\ UNCHANGED <<current_height, getVars, dropVars, iterVars>>

\* atomic_ptr.load(Relaxed) in the find-spots walk, and the match on it
InsertLoad(t) ==
  /\ ins[t].pc = "load"
  /\ Commit(t, WalkStep(head, nodes, ins[t]), head, nodes)
  /\ UNCHANGED <<current_height, insVars, getVars, dropVars, iterVars>>

\* new_node is None after the walk: random height h, fetch_max, Node::alloc
InsertAlloc(t, h) ==
  /\ ins[t].pc = "alloc"
  /\ current_height' = Max(current_height, h)
  /\ LET L  == ins[t]
         ns == [nodes EXCEPT ![L.call] = NodeAlloc(L.elem, h)]
     IN  Commit(t, SpliceNext(ns, [L EXCEPT !.elem = NoElem,
                                            !.elem_ptr = "heap",
                                            !.new_node = L.call,
                                            !.highest_insert = h,
                                            !.k = L.inserted]),
                head, ns)
  /\ UNCHANGED <<insVars, getVars, dropVars, iterVars>>

\* (variant: the store of the successor into the new node left out)
InsertStoreSkipped(t) ==
  /\ ins[t].pc = "store"
  /\ LET L == ins[t]
     IN  IF L.spots[L.k].pred = NullSlot
           THEN Commit(t, [L EXCEPT !.pc = "ub"], head, nodes)
           ELSE Commit(t, [L EXCEPT !.pc = "cas"], head, nodes)
  /\ UNCHANGED <<current_height, insVars, getVars, dropVars, iterVars>>

\* new.store(succ, Release) on lane k (from the bottom) of the new node
InsertStore(t) ==
  /\ ins[t].pc = "store"
  /\ LET L == ins[t]
         h == nodes[L.new_node].height
     IN  IF L.spots[L.k].pred = NullSlot
           THEN Commit(t, [L EXCEPT !.pc = "ub"], head, nodes)
           ELSE Commit(t, [L EXCEPT !.pc = "cas"], head,
                       NodesAfter(nodes, <<L.new_node, h - 1 - L.k>>,
                                  L.spots[L.k].succ))
  /\ UNCHANGED <<current_height, insVars, getVars, dropVars, iterVars>>

\* pred.compare_and_swap(succ, new_node_addr, AcqRel)
InsertCas(t) ==
  /\ ins[t].pc = "cas"
  /\ LET L    == ins[t]
         pred == L.spots[L.k].pred
         succ == L.spots[L.k].succ
     IN  IF CasSucceeds(head, nodes, pred, succ)
           THEN LET hd2 == HeadAfter(head, pred, L.new_node)
                    ns2 == NodesAfter(nodes, pred, L.new_node)
                IN  /\ Commit(t, SpliceNext(ns2, [L EXCEPT !.inserted = L.inserted + 1,
                                                           !.k = L.k + 1]),
                              hd2, ns2)
                    /\ get' = [u \in Threads |->
                                IF get[u].pc = "load"
                                  THEN [get[u] EXCEPT !.raced = TRUE] ELSE get[u]]
           ELSE /\ Commit(t, CasFailed(nodes, L), head, nodes)
                /\ get' = get
  /\ UNCHANGED <<current_height, insVars, ngets, dropVars, iterVars>>

\* ------------------------------------------------- SkipList::insert (mod.rs)
\* The insert method compiled into the crate keeps its own copy of the
\* algorithm; its locals are held in the same record, with inserted the
\* bool of the splice loop (0 false, 1 true) and init_lanes, highest_insert
\* unused.

\* 'insert: for (&(pred, succ), new) in
\*            spots.iter().zip(new_node.lanes().iter().rev())
ModSpliceNext(ns, L) ==
  IF L.k < Min(ns[L.new_node].height, MAX_HEIGHT)
    THEN [L EXCEPT !.pc = "store"]
    ELSE [L EXCEPT !.pc = "ret_inserted"]

\* the code after the 'across loop: allocate if new_node is None, then
\* let mut inserted = false and the splice loop from its first item
ModAfterWalk(ns, L) ==
  IF L.new_node = NULL
    THEN [L EXCEPT !.pc = "alloc"]
    ELSE ModSpliceNext(ns, [L EXCEPT !.k = 0, !.inserted = 0])

\* 'across: while height > 0 { 'down: for atomic_ptr in lanes {
ModWhileAcross(ns, L) ==
  IF L.height > 0
    THEN IF SliceLen(ns, L.lanes) > 0
           THEN [L EXCEPT !.pc = "load", !.it = L.lanes[2]]
           ELSE [L EXCEPT !.pc = "spin"]
    ELSE ModAfterWalk(ns, L)

\* continue 'down: the for loop takes the next slot of the same lane array
ModContinueDown(ns, L) ==
  IF L.it + 1 < OwnerHeight(ns, L.lanes[1])
    THEN [L EXCEPT !.pc = "load", !.it = L.it + 1]
    ELSE ModWhileAcross(ns, [L EXCEPT !.it = L.it + 1])

\* the None and Less arms: height -= 1; spots[height] = (atomic_ptr, succ)
ModDescend(ns, L, slot, succ) ==
  IF L.height = 0
    THEN [L EXCEPT !.pc = "panic"]
    ELSE ModContinueDown(ns,
           [L EXCEPT !.height = L.height - 1,
                     !.spots[L.height - 1] = [pred |-> slot, succ |-> succ]])

\* the Greater arm: lanes = &node.lanes()[(node.inner.height - height)..]
ModStepAcross(ns, L, n) ==
  IF ns[n].height < L.height
    THEN [L EXCEPT !.pc = "panic"]
    ELSE ModWhileAcross(ns, [L EXCEPT !.lanes = <<n, ns[n].height - L.height>>])

\* 'unlock: loop { spots = null; lanes = &self.lanes[..]; height = MAX_HEIGHT
ModUnlock(ns, L) ==
  ModWhileAcross(ns, [L EXCEPT !.lanes = <<HEAD, 0>>,
                               !.height = MAX_HEIGHT,
                               !.spots = NoSpots])

\* the arms of a failed compare_and_swap: continue 'unlock while nothing was
\* linked, break 'insert (and return None) once a lane was
ModCasFailed(ns, L) ==
  IF L.inserted = 0
    THEN ModUnlock(ns, L)
    ELSE [L EXCEPT !.pc = "ret_inserted"]

\* one iteration of the 'down loop body: load the slot, match on it; the
\* Equal arm returns the element whatever was linked before
ModWalkStep(hd, ns, L) ==
  LET slot == <<L.lanes[1], L.it>>
      ptr  == LoadSlot(hd, ns, slot)
  IN  IF ptr = NULL
        THEN ModDescend(ns, L, slot, NULL)
      ELSE IF ns[ptr].state # "live"
                \/ (L.elem_ptr = "heap" /\ ns[L.new_node].state # "live")
        THEN [L EXCEPT !.pc = "ub"]
      ELSE CASE Cmp(ElemRef(ns, L).key, ns[ptr].elem.key) = "Equal" ->
                  [L EXCEPT !.pc = "ret_present"]
             [] Cmp(ElemRef(ns, L).key, ns[ptr].elem.key) = "Less" ->
                  ModDescend(ns, L, slot, ptr)
             [] Cmp(ElemRef(ns, L).key, ns[ptr].elem.key) = "Greater" ->
                  ModStepAcross(ns, L, ptr)

\* SkipList::insert is called with element key and reaches its first load
ModInsertStart(t, key) ==
  /\ life = "shared"
  /\ ins[t].pc = "idle" /\ get[t].pc = "idle"
  /\ ncalls + ngets < MaxCalls
  /\ ncalls' = ncalls + 1
  /\ keyOf' = [keyOf EXCEPT ![ncalls + 1] = key]
  /\ callThread' = [callThread EXCEPT ![ncalls + 1] = t]
  /\ dupCalls' = IF KeyLinked(head, nodes, key)
                   THEN dupCalls \cup {ncalls + 1} ELSE dupCalls
  /\ Commit(t, ModUnlock(nodes, [IdleIns EXCEPT !.call = ncalls + 1,
                                                !.elem = MkElem(key, ncalls + 1)]),
            head, nodes)
  /\ UNCHANGED <<current_height, getVars, dropVars, iterVars>>

\* atomic_ptr.load(Relaxed) in the walk, and the match on it
ModInsertLoad(t) ==
  /\ ins[t].pc = "load"
  /\ Commit(t, ModWalkStep(head, nodes, ins[t]), head, nodes)
  /\ UNCHANGED <<current_height, insVars, getVars, dropVars, iterVars>>

\* new_node is None after the walk: Node::alloc(elem, random_height())
ModInsertAlloc(t, h) ==
  /\ ins[t].pc = "alloc"
  /\ LET L  == ins[t]
         ns == [nodes EXCEPT ![L.call] = NodeAlloc(L.elem, h)]
     IN  Commit(t, ModSpliceNext(ns, [L EXCEPT !.elem = NoElem,
                                               !.elem_ptr = "heap",
                                               !.new_node = L.call,
                                               !.k = 0,
                                               !.inserted = 0]),
                head, ns)
  /\ UNCHANGED <<current_height, insVars, getVars, dropVars, iterVars>>

\* let pred = &*pred; new.store(succ, Release) on lane k from the bottom
ModInsertStore(t) ==
  /\ ins[t].pc = "store"
  /\ LET L == ins[t]
         h == nodes[L.new_node].height
     IN  IF L.spots[L.k].pred = NullSlot
           THEN Commit(t, [L EXCEPT !.pc = "ub"], head, nodes)
           ELSE Commit(t, [L EXCEPT !.pc = "cas"], head,
                       NodesAfter(nodes, <<L.new_node, h - 1 - L.k>>,
                                  L.spots[L.k].succ))
  /\ UNCHANGED <<current_height, insVars, getVars, dropVars, iterVars>>

\* if succ == pred.compare_and_swap(succ, new_node_ptr, AcqRel)
ModInsertCas(t) ==
  /\ ins[t].pc = "cas"
  /\ LET L    == ins[t]
         pred == L.spots[L.k].pred
         succ == L.spots[L.k].succ
     IN  IF CasSucceeds(head, nodes, pred, succ)
           THEN LET hd2 == HeadAfter(head, pred, L.new_node)
                    ns2 == NodesAfter(nodes, pred, L.new_node)
                IN  Commit(t, ModSpliceNext(ns2, [L EXCEPT !.inserted = 1,
                                                           !.k = L.k + 1]),
                           hd2, ns2)
           ELSE Commit(t, ModCasFailed(nodes, L), head, nodes)
  /\ UNCHANGED <<current_height, insVars, getVars, dropVars, iterVars>>

\* ------------------------------------------------------------------- get
\* the locals of get, and after it returned (done) what it was asked and
\* what it returned: res is the element borrowed, NoElem for None.
\*   must  - an insert of an Equal element had returned Inserted at the call
\*   raced - a splice CAS of some insert succeeded while the get was running
\*   trim  - the get was entered with fewer than MAX_HEIGHT head lanes
IdleGet == [pc |-> "idle", q |-> 0, lanes |-> <<HEAD, 0>>, it |-> 0, height |-> 0,
            done |-> FALSE, res |-> NoElem, must |-> FALSE, raced |-> FALSE,
            trim |-> FALSE]

\* (variant: while height > 1)
GetWhileAcrossOffByOne(ns, G) ==
  IF G.height > 1
    THEN IF SliceLen(ns, G.lanes) > 0
           THEN [G EXCEPT !.pc = "load", !.it = G.lanes[2]]
           ELSE [G EXCEPT !.pc = "spin"]
    ELSE [G EXCEPT !.pc = "idle", !.done = TRUE, !.res = NoElem]

\* 'across: while height > 0 { 'down: for atomic_ptr in lanes {
GetWhileAcross(ns, G) ==
  IF G.height > 0
    THEN IF SliceLen(ns, G.lanes) > 0
           THEN [G EXCEPT !.pc = "load", !.it = G.lanes[2]]
           ELSE [G EXCEPT !.pc = "spin"]
    ELSE [G EXCEPT !.pc = "idle", !.done = TRUE, !.res = NoElem]

\* (variant: continue 'down without height -= 1)
GetDescendKeepsHeight(ns, G) ==
  IF G.it + 1 < OwnerHeight(ns, G.lanes[1])
    THEN [G EXCEPT !.pc = "load", !.it = G.it + 1]
    ELSE GetWhileAcross(ns, [G EXCEPT !.it = G.it + 1])

\* the None and Less arms: height -= 1; continue 'down
GetDescend(ns, G) ==
  IF G.height = 0
    THEN [G EXCEPT !.pc = "panic"]
  ELSE IF G.it + 1 < OwnerHeight(ns, G.lanes[1])
    THEN [G EXCEPT !.pc = "load", !.it = G.it + 1, !.height = G.height - 1]
    ELSE GetWhileAcross(ns, [G EXCEPT !.it = G.it + 1, !.height = G.height - 1])

\* (variant: lanes = node.lanes(), the whole lane array of the node)
GetStepAcrossWholeArray(ns, G, n) ==
  IF ns[n].height < G.height
    THEN [G EXCEPT !.pc = "panic"]
    ELSE GetWhileAcross(ns, [G EXCEPT !.lanes = <<n, 0>>])

\* the Greater arm: lanes = &node.lanes()[(node.height() - height)..]
GetStepAcross(ns, G, n) ==
  IF ns[n].height < G.height
    THEN [G EXCEPT !.pc = "panic"]
    ELSE GetWhileAcross(ns, [G EXCEPT !.lanes = <<n, ns[n].height - G.height>>])

\* (variant: the Less arm returns None)
GetWalkStepLessIsNone(hd, ns, G) ==
  LET ptr == LoadSlot(hd, ns, <<G.lanes[1], G.it>>)
  IN  IF ptr = NULL
        THEN GetDescend(ns, G)
      ELSE IF ns[ptr].state # "live"
        THEN [G EXCEPT !.pc = "ub"]
      ELSE CASE Cmp(G.q, ns[ptr].elem.key) = "Equal" ->
                  [G EXCEPT !.pc = "idle", !.done = TRUE, !.res = ns[ptr].elem]
             [] Cmp(G.q, ns[ptr].elem.key) = "Less" ->
                  [G EXCEPT !.pc = "idle", !.done = TRUE, !.res = NoElem]
             [] Cmp(G.q, ns[ptr].elem.key) = "Greater" -> GetStepAcross(ns, G, ptr)

\* one iteration of the 'down loop body of get: load the slot, match on it
GetWalkStep(hd, ns, G) ==
  LET ptr == LoadSlot(hd, ns, <<G.lanes[1], G.it>>)
  IN  IF ptr = NULL
        THEN GetDescend(ns, G)
      ELSE IF ns[ptr].state # "live"
        THEN [G EXCEPT !.pc = "ub"]
      ELSE CASE Cmp(G.q, ns[ptr].elem.key) = "Equal" ->
                  [G EXCEPT !.pc = "idle", !.done = TRUE, !.res = ns[ptr].elem]
             [] Cmp(G.q, ns[ptr].elem.key) = "Less" -> GetDescend(ns, G)
             [] Cmp(G.q, ns[ptr].elem.key) = "Greater" -> GetStepAcross(ns, G, ptr)

\* get entered with the lane slice sl of the head and the query q
GetEnter(ns, sl, q, must) ==
  GetWhileAcross(ns, [IdleGet EXCEPT !.q = q, !.lanes = sl,
                                     !.height = SliceLen(ns, sl), !.must = must])

\* an insert of an element Equal to q has returned Inserted
InsertedKey(q) == \E c \in NodeIds : result[c] = "Inserted" /\ keyOf[c] = q

\* SkipList::get of skiplist/mod.rs: starts on all MAX_HEIGHT head lanes
GetStart(t, q) ==
  /\ life = "shared"
  /\ ins[t].pc = "idle" /\ get[t].pc = "idle"
  /\ ncalls + ngets < MaxCalls /\ ngets < MaxGets
  /\ ngets' = ngets + 1
  /\ get' = [get EXCEPT ![t] = GetEnter(nodes, <<HEAD, 0>>, q, InsertedKey(q))]
  /\ UNCHANGED <<head, current_height, nodes, ins, result, retElem, insVars, dropVars, iterVars>>

\* get of skiplist/get.rs called on the head lanes trimmed to current_height
GetStartTrimmed(t, q) ==
  /\ life = "shared"
  /\ ins[t].pc = "idle" /\ get[t].pc = "idle"
  /\ ncalls + ngets < MaxCalls /\ ngets < MaxGets
  /\ ngets' = ngets + 1
  /\ get' = [get EXCEPT ![t] =
               [GetEnter(nodes, <<HEAD, MAX_HEIGHT - current_height>>,
                         q, InsertedKey(q))
                  EXCEPT !.trim = current_height < MAX_HEIGHT]]
  /\ UNCHANGED <<head, current_height, nodes, ins, result, retElem, insVars, dropVars, iterVars>>

\* atomic_ptr.load(Acquire) in get, and the match on it
GetLoad(t) ==
  /\ get[t].pc = "load"
  /\ get' = [get EXCEPT ![t] = GetWalkStep(head, nodes, get[t])]
  /\ UNCHANGED <<head, current_height, nodes, ins, result, retElem, insVars,
                 ngets, dropVars, iterVars>>

\* get run to completion on a heap that does not change; fuel bounds the loads
RECURSIVE GetRun(_, _, _, _)
GetRun(hd, ns, G, fuel) ==
  IF G.pc # "load" \/ fuel = 0 THEN G
  ELSE GetRun(hd, ns, GetWalkStep(hd, ns, G), fuel - 1)

\* every load of get moves down a lane or across to another node
GetFuel == (MaxCalls + 1) * (MAX_HEIGHT + 1)

\* what get(q) returns on the heap (hd, ns), entered with the lanes sl
GetSeq(hd, ns, sl, q) == GetRun(hd, ns, GetEnter(ns, sl, q, FALSE), GetFuel)

\* ------------------------------------------------------ drop, into_elems
\* no insert and no get is running (they borrow the list)
AllIdle == \A t \in Threads : ins[t].pc = "idle" /\ get[t].pc = "idle"

\* Drop for SkipList: for node in self.nodes_mut()
DropStart ==
  /\ life = "shared" /\ AllIdle
  /\ life' = "drop"
  /\ cursor' = First(head)
  /\ UNCHANGED <<head, current_height, nodes, ins, result, retElem, insVars,
                 getVars, yielded, destroyed, iterVars>>

\* NodesMut::next, then the loop body drop(node.dealloc())
DropStep ==
  /\ life = "drop"
  /\ IF cursor = NULL
       THEN /\ life' = "dropped"
            /\ UNCHANGED <<cursor, nodes, destroyed>>
     ELSE IF nodes[cursor].state # "live"
       THEN /\ life' = "ub"
            /\ UNCHANGED <<cursor, nodes, destroyed>>
     ELSE /\ cursor' = NodeNext(nodes, cursor)
          /\ nodes' = NodeDealloc(nodes, cursor)
          /\ destroyed' = [destroyed EXCEPT ![nodes[cursor].elem.id] = @ + 1]
          /\ life' = life
  /\ UNCHANGED <<head, current_height, ins, result, retElem, insVars, getVars, yielded, iterVars>>

\* SkipList::into_elems: ptr = self.first(); mem::forget(self)
IntoElems ==
  /\ life = "shared" /\ AllIdle
  /\ life' = "drain"
  /\ cursor' = First(head)
  /\ UNCHANGED <<head, current_height, nodes, ins, result, retElem, insVars,
                 getVars, yielded, destroyed, iterVars>>

\* IntoElems::next: the element is read out of the node and returned; the
\* value node.dealloc() returns is a temporary that is dropped on the spot
IntoElemsNext ==
  /\ life = "drain"
  /\ IF cursor = NULL
       THEN /\ life' = "drained"
            /\ UNCHANGED <<cursor, nodes, destroyed, yielded>>
     ELSE IF nodes[cursor].state # "live"
       THEN /\ life' = "ub"
            /\ UNCHANGED <<cursor, nodes, destroyed, yielded>>
     ELSE /\ cursor' = NodeNext(nodes, cursor)
          /\ yielded' = Append(yielded, nodes[cursor].elem)
          /\ nodes' = NodeDealloc(nodes, cursor)
          /\ destroyed' = [destroyed EXCEPT ![nodes[cursor].elem.id] = @ + 1]
          /\ life' = life
  /\ UNCHANGED <<head, current_height, ins, result, retElem, insVars, getVars, iterVars>>

\* the IntoElems value goes out of scope before the drain has ended: the
\* struct has the one field ptr and no Drop impl, so nothing else happens
IntoElemsDrop ==
  /\ life = "drain"
  /\ life' = "iter_dropped"
  /\ UNCHANGED <<head, current_height, nodes, ins, result, retElem, insVars,
                 getVars, cursor, yielded, destroyed, iterVars>>

\* ------------------------------------------------------- Elems iterators
\* (variant: peek looks at the node after the one next() will return)
ElemsPeekSkipsOne(ns, ptr) ==
  IF ptr = NULL \/ NodeNext(ns, ptr) = NULL THEN NoElem
  ELSE ns[NodeNext(ns, ptr)].elem

\* Elems::peek on an iterator whose nodes.ptr is ptr: the element of the
\* node pointed at, None (NoElem) at the end; the iterator is not changed
ElemsPeek(ns, ptr) == IF ptr = NULL THEN NoElem ELSE ns[ptr].elem

\* Elems::next, the element returned: self.ptr.take()?, then the node's elem
ElemsNextElem(ns, ptr) == IF ptr = NULL THEN NoElem ELSE ns[ptr].elem

\* Elems::next, the ptr field afterwards: None stays None, else node.next()
ElemsNextPtr(ns, ptr) == IF ptr = NULL THEN NULL ELSE NodeNext(ns, ptr)

\* ------------------------------------------------------------------ Set
\* The two Sets a merge iterator borrows are built by collect() from keys;
\* their nodes share one arena, the left set's nodes first.  The node of
\* key k was given the height SetHeight(k).
SetHeight(k) == 1 + (k % MAX_HEIGHT)

\* node i of the list that holds the ascending keys ks, nodes named from b+1:
\* lane x of a node of height h is level h - x, and points to the next node
\* that is tall enough
ListNode(ks, b, i) ==
  LET h == SetHeight(ks[i])
  IN  [state |-> "live", elem |-> MkElem(ks[i], b + i), height |-> h,
       lanes |-> [x \in 0..(h - 1) |->
                   LET c == {j \in (i + 1)..Len(ks) : SetHeight(ks[j]) >= h - x}
                   IN  IF c = {} THEN NULL
                       ELSE b + (CHOOSE j \in c : \A m \in c : j <= m)],
       frees |-> 0]

SetHeap(ksl, ksr) ==
  [n \in 1..(Len(ksl) + Len(ksr)) |->
     IF n <= Len(ksl) THEN ListNode(ksl, 0, n)
                      ELSE ListNode(ksr, Len(ksl), n - Len(ksl))]

\* no merge iterator exists
NoSetIter == [op |-> "none", ns |-> <<>>, left |-> NULL, right |-> NULL,
              out |-> <<>>, ended |-> FALSE, L |-> {}, R |-> {}]

\* Set::difference and its three siblings: left: self.inner.elems(),
\* right: other.inner.elems(), on the sets that hold the keys L and R
SetIterNew(op, L, R) ==
  [op |-> op, ns |-> SetHeap(Ascending(L), Ascending(R)),
   left |-> IF L = {} THEN NULL ELSE 1,
   right |-> IF R = {} THEN NULL ELSE Cardinality(L) + 1,
   out |-> <<>>, ended |-> FALSE, L |-> L, R |-> R]

\* what a call of next() did: the two Elems iterators afterwards and the
\* value returned (NoElem for None)
Ret(l, r, e) == [left |-> l, right |-> r, ret |-> e]

\* a call of next() on the merge iterator S had the outcome r: a value
\* returned is appended to out, None ends the iteration
Advance(S, r) ==
  [S EXCEPT !.left = r.left, !.right = r.right,
            !.out = IF r.ret = NoElem THEN @ ELSE Append(@, r.ret),
            !.ended = (r.ret = NoElem)]

\* (variant: Equal breaks out of the while like Less)
DifferenceArmEqualBreaks(o) == IF o = "Greater" THEN "next_right" ELSE "break"

\* Difference::next, the match on left.cmp(right):
\* Less => break, Equal => right.next() and continue 'left,
\* Greater => right.next()
DifferenceArm(o) ==
  CASE o = "Less"    -> "break"
    [] o = "Equal"   -> "continue_left"
    [] o = "Greater" -> "next_right"

RECURSIVE DifferenceNext(_, _, _)
RECURSIVE DifferenceWhile(_, _, _, _)

\* Difference::next: while let Some(right) = self.right.peek(), for the
\* element left already taken from the left iterator, which now stands at l
DifferenceWhile(ns, left, l, r) ==
  IF ElemsPeek(ns, r) = NoElem THEN Ret(l, r, left)
  ELSE LET arm == DifferenceArm(Cmp(left.key, ElemsPeek(ns, r).key))
       IN  CASE arm = "break" -> Ret(l, r, left)
             [] arm = "continue_left" -> DifferenceNext(ns, l, ElemsNextPtr(ns, r))
             [] arm = "next_right" ->
                  DifferenceWhile(ns, left, l, ElemsNextPtr(ns, r))

\* Difference::next: 'left: loop { let left = self.left.next()?; ...
DifferenceNext(ns, l, r) ==
  IF ElemsNextElem(ns, l) = NoElem THEN Ret(ElemsNextPtr(ns, l), r, NoElem)
  ELSE DifferenceWhile(ns, ElemsNextElem(ns, l), ElemsNextPtr(ns, l), r)

\* (variant: Equal returns the left element and leaves the right one)
SymmetricDifferenceArmEqualLeft(o) == IF o = "Greater" THEN "right" ELSE "left"

\* SymmetricDifference::next, the match on left.cmp(right):
\* Less => self.left.next(), Greater => self.right.next(),
\* Equal => both next() and continue
SymmetricDifferenceArm(o) ==
  CASE o = "Less"    -> "left"
    [] o = "Greater" -> "right"
    [] o = "Equal"   -> "both_continue"

\* SymmetricDifference::next: loop { return match (left.peek(), right.peek())
RECURSIVE SymmetricDifferenceNext(_, _, _)
SymmetricDifferenceNext(ns, l, r) ==
  LET pl == ElemsPeek(ns, l)
      pr == ElemsPeek(ns, r)
  IN  IF pl = NoElem /\ pr = NoElem THEN Ret(l, r, NoElem)
      ELSE IF pr = NoElem THEN Ret(ElemsNextPtr(ns, l), r, ElemsNextElem(ns, l))
      ELSE IF pl = NoElem THEN Ret(l, ElemsNextPtr(ns, r), ElemsNextElem(ns, r))
      ELSE LET arm == SymmetricDifferenceArm(Cmp(pl.key, pr.key))
           IN  CASE arm = "left" ->
                      Ret(ElemsNextPtr(ns, l), r, ElemsNextElem(ns, l))
                 [] arm = "right" ->
                      Ret(l, ElemsNextPtr(ns, r), ElemsNextElem(ns, r))
                 [] arm = "both_continue" ->
                      SymmetricDifferenceNext(ns, ElemsNextPtr(ns, l),
                                              ElemsNextPtr(ns, r))

\* (variant: the lesser side is kept and the greater one discarded)
IntersectionArmSwapped(o) ==
  CASE o = "Less"    -> "next_right"
    [] o = "Greater" -> "next_left"
    [] o = "Equal"   -> "yield"

\* Intersection::next, the match on left.cmp(right):
\* Less => self.left.next(), Greater => self.right.next(),
\* Equal => self.right.next(); return self.left.next()
IntersectionArm(o) ==
  CASE o = "Less"    -> "next_left"
    [] o = "Greater" -> "next_right"
    [] o = "Equal"   -> "yield"

\* Intersection::next: loop { let left = self.left.peek()?;
\*                            let right = self.right.peek()?; match ...
RECURSIVE IntersectionNext(_, _, _)
IntersectionNext(ns, l, r) ==
  LET pl == ElemsPeek(ns, l)
      pr == ElemsPeek(ns, r)
  IN  IF pl = NoElem \/ pr = NoElem THEN Ret(l, r, NoElem)
      ELSE LET arm == IntersectionArm(Cmp(pl.key, pr.key))
           IN  CASE arm = "next_left" -> IntersectionNext(ns, ElemsNextPtr(ns, l), r)
                 [] arm = "next_right" -> IntersectionNext(ns, l, ElemsNextPtr(ns, r))
                 [] arm = "yield" ->
                      Ret(ElemsNextPtr(ns, l), ElemsNextPtr(ns, r),
                          ElemsNextElem(ns, l))

\* (variant: Equal returns the left element and leaves the right one)
UnionArmEqualLeft(o) == IF o = "Greater" THEN "right" ELSE "left"

\* Union::next, the match on left.cmp(right):
\* Less => self.left.next(), Greater => self.right.next(),
\* Equal => self.right.next(); self.left.next()
UnionArm(o) ==
  CASE o = "Less"    -> "left"
    [] o = "Greater" -> "right"
    [] o = "Equal"   -> "both"

\* Union::next: match (self.left.peek(), self.right.peek())
UnionNext(ns, l, r) ==
  LET pl == ElemsPeek(ns, l)
      pr == ElemsPeek(ns, r)
  IN  IF pl = NoElem /\ pr = NoElem THEN Ret(l, r, NoElem)
      ELSE IF pr = NoElem THEN Ret(ElemsNextPtr(ns, l), r, ElemsNextElem(ns, l))
      ELSE IF pl = NoElem THEN Ret(l, ElemsNextPtr(ns, r), ElemsNextElem(ns, r))
      ELSE LET arm == UnionArm(Cmp(pl.key, pr.key))
           IN  CASE arm = "left" ->
                      Ret(ElemsNextPtr(ns, l), r, ElemsNextElem(ns, l))
                 [] arm = "right" ->
                      Ret(l, ElemsNextPtr(ns, r), ElemsNextElem(ns, r))
                 [] arm = "both" ->
                      Ret(ElemsNextPtr(ns, l), ElemsNextPtr(ns, r),
                          ElemsNextElem(ns, l))

\* everything but the iterators
listVars == <<head, current_height, nodes, ins, result, retElem, insVars,
              getVars, dropVars>>

\* a.difference(b) on the sets a, b that hold the keys L, R
SetDifference(L, R) ==
  /\ setIter.op = "none"
  /\ setIter' = SetIterNew("difference", L, R)
  /\ UNCHANGED <<listVars, elemsIt>>

SetSymmetricDifference(L, R) ==
  /\ setIter.op = "none"
  /\ setIter' = SetIterNew("symmetric_difference", L, R)
  /\ UNCHANGED <<listVars, elemsIt>>

SetIntersection(L, R) ==
  /\ setIter.op = "none"
  /\ setIter' = SetIterNew("intersection", L, R)
  /\ UNCHANGED <<listVars, elemsIt>>

SetUnion(L, R) ==
  /\ setIter.op = "none"
  /\ setIter' = SetIterNew("union", L, R)
  /\ UNCHANGED <<listVars, elemsIt>>

\* one call of next() on the merge iterator
DifferenceStep ==
  /\ setIter.op = "difference" /\ ~setIter.ended
  /\ setIter' = Advance(setIter,
                        DifferenceNext(setIter.ns, setIter.left, setIter.right))
  /\ UNCHANGED <<listVars, elemsIt>>

SymmetricDifferenceStep ==
  /\ setIter.op = "symmetric_difference" /\ ~setIter.ended
  /\ setIter' = Advance(setIter, SymmetricDifferenceNext(setIter.ns, setIter.left,
                                                         setIter.right))
  /\ UNCHANGED <<listVars, elemsIt>>

IntersectionStep ==
  /\ setIter.op = "intersection" /\ ~setIter.ended
  /\ setIter' = Advance(setIter,
                        IntersectionNext(setIter.ns, setIter.left, setIter.right))
  /\ UNCHANGED <<listVars, elemsIt>>

UnionStep ==
  /\ setIter.op = "union" /\ ~setIter.ended
  /\ setIter' = Advance(setIter, UnionNext(setIter.ns, setIter.left, setIter.right))
  /\ UNCHANGED <<listVars, elemsIt>>

\* the Elems iterator of the list: not created yet
NoElemsIt == [live |-> FALSE, ptr |-> NULL, peeked |-> FALSE, peek |-> NoElem,
              out |-> <<>>, ended |-> FALSE, ub |-> FALSE]

\* SkipList::elems: Elems { nodes: Nodes::new(self.first()) }; the iterator
\* borrows the list shared, so inserts go on while it lives
ElemsNew ==
  /\ life = "shared"
  /\ ~elemsIt.live
  /\ ncalls + ngets < MaxCalls /\ ngets < MaxGets
  /\ ngets' = ngets + 1
  /\ elemsIt' = [NoElemsIt EXCEPT !.live = TRUE, !.ptr = First(head)]
  /\ UNCHANGED <<head, current_height, nodes, ins, result, retElem, insVars,
                 get, dropVars, setIter>>

\* Elems::peek: the value is remembered in peek until the next call of next()
ElemsPeekStep ==
  /\ elemsIt.live /\ ~elemsIt.ended
  /\ IF elemsIt.ptr # NULL /\ nodes[elemsIt.ptr].state # "live"
       THEN elemsIt' = [elemsIt EXCEPT !.ub = TRUE, !.ended = TRUE]
       ELSE elemsIt' = [elemsIt EXCEPT !.peeked = TRUE,
                                       !.peek = ElemsPeek(nodes, elemsIt.ptr)]
  /\ UNCHANGED <<listVars, setIter>>

\* Elems::next: the element returned is appended to out, None ends
ElemsNextStep ==
  /\ elemsIt.live /\ ~elemsIt.ended
  /\ IF elemsIt.ptr # NULL /\ nodes[elemsIt.ptr].state # "live"
       THEN elemsIt' = [elemsIt EXCEPT !.ub = TRUE, !.ended = TRUE]
       ELSE elemsIt' =
              [elemsIt EXCEPT
                 !.ptr = ElemsNextPtr(nodes, elemsIt.ptr),
                 !.out = IF ElemsNextElem(nodes, elemsIt.ptr) = NoElem
                           THEN @ ELSE Append(@, ElemsNextElem(nodes, elemsIt.ptr)),
                 !.ended = (ElemsNextElem(nodes, elemsIt.ptr) = NoElem),
                 !.peeked = FALSE, !.peek = NoElem]
  /\ UNCHANGED <<listVars, setIter>>

Init ==
  /\ head = [i \in 0..(MAX_HEIGHT - 1) |-> NULL]
  /\ current_height = 0
  /\ nodes = [n \in NodeIds |-> NoNode]
  /\ ncalls = 0
  /\ ins = [t \in Threads |-> IdleIns]
  /\ keyOf = [n \in NodeIds |-> 0]
  /\ result = [n \in NodeIds |-> "none"]
  /\ retElem = [n \in NodeIds |-> NoElem]
  /\ callThread = [n \in NodeIds |-> 0]
  /\ dupCalls = {}
  /\ get = [t \in Threads |-> IdleGet]
  /\ ngets = 0
  /\ life = "shared"
  /\ cursor = NULL
  /\ yielded = <<>>
  /\ destroyed = [n \in NodeIds |-> 0]
  /\ elemsIt = NoElemsIt
  /\ setIter = NoSetIter

\* the steps of the insert calls
InsertStep(t) ==
  \/ InsertLoad(t)
  \/ \E h \in 1..MAX_HEIGHT : InsertAlloc(t, h)
  \/ InsertStore(t)
  \/ InsertCas(t)

\* threads insert concurrently; once they are all idle the list may be
\* dropped or drained, and the draining iterator dropped before its end
Next ==
  \/ \E t \in Threads, key \in Keys : InsertStart(t, key)
  \/ \E t \in Threads : InsertStep(t)
  \/ DropStart
  \/ DropStep
  \/ IntoElems
  \/ IntoElemsNext
  \/ IntoElemsDrop

Spec == Init /\ [][Next]_vars

\* threads insert concurrently; a thread inside insert that is the only one
\* running is not stopped for ever
NextInsert ==
  \/ \E t \in Threads, key \in Keys : InsertStart(t, key)
  \/ \E t \in Threads : InsertStep(t)

InsertProgress == \E t \in Threads : InsertStep(t)

\* runs of at most LiveCalls insert calls under that fairness
NextLive == NextInsert /\ ncalls' <= LiveCalls

LiveSpec == Init /\ [][NextLive]_vars /\ WF_vars(InsertProgress)

\* threads insert and look up concurrently
NextGet ==
  \/ \E t \in Threads, key \in Keys : InsertStart(t, key)
  \/ \E t \in Threads : InsertStep(t)
  \/ \E t \in Threads, q \in Keys : GetStart(t, q)
  \/ \E t \in Threads, q \in Keys : GetStartTrimmed(t, q)
  \/ \E t \in Threads : GetLoad(t)

SpecGet == Init /\ [][NextGet]_vars

\* the same, where a thread that is inside get goes on executing it; the
\* inserts may stop or run at any speed
SpecGetFair ==
  Init /\ [][NextGet]_vars /\ \A t \in Threads : WF_vars(GetLoad(t))

\* threads insert while the elements of the list are iterated
NextIter ==
  \/ \E t \in Threads, key \in Keys : InsertStart(t, key)
  \/ \E t \in Threads : InsertStep(t)
  \/ ElemsNew
  \/ ElemsPeekStep
  \/ ElemsNextStep

SpecIter == Init /\ [][NextIter]_vars

\* two sets are built and one of the four merge iterators is run over them
NextSets ==
  \/ \E L, R \in SUBSET Keys : SetDifference(L, R)
  \/ \E L, R \in SUBSET Keys : SetSymmetricDifference(L, R)
  \/ \E L, R \in SUBSET Keys : SetIntersection(L, R)
  \/ \E L, R \in SUBSET Keys : SetUnion(L, R)
  \/ DifferenceStep
  \/ SymmetricDifferenceStep
  \/ IntersectionStep
  \/ UnionStep

SpecSets == Init /\ [][NextSets]_vars

\* concurrent calls of the SkipList::insert method of mod.rs
NextMod ==
  \/ \E t \in Threads, key \in Keys : ModInsertStart(t, key)
  \/ \E t \in Threads : ModInsertLoad(t)
  \/ \E t \in Threads, h \in 1..MAX_HEIGHT : ModInsertAlloc(t, h)
  \/ \E t \in Threads : ModInsertStore(t)
  \/ \E t \in Threads : ModInsertCas(t)

SpecMod == Init /\ [][NextMod]_vars

NoFault ==
  /\ \A t \in Threads : ins[t].pc \notin {"ub", "panic", "spin"}
  /\ \A t \in Threads : get[t].pc \notin {"ub", "panic", "spin"}
  /\ life # "ub"
  /\ ~elemsIt.ub
\* ==================================================================
\* Properties
\* ==================================================================
\* the insert calls started so far, and the keys they were given
Started == 1..ncalls
KeysInserted == {keyOf[c] : c \in Started}

KeysOf(es) == [i \in 1..Len(es) |-> es[i].key]

StrictlyAscending(ks) == \A i, j \in 1..Len(ks) : i < j => ks[i] < ks[j]

\* no call is running and the list is still alive
Quiescent == life = "shared" /\ AllIdle

\* thread i was given keys congruent to i modulo the number of threads,
\* each key once
DisjointResidues ==
  /\ \A c \in Started : keyOf[c] % NumThreads = callThread[c] % NumThreads
  /\ \A c, d \in Started : c # d => keyOf[c] # keyOf[d]

\* C1: when the threads have inserted pairwise disjoint residue classes and
\* every insert has returned, elems() yields exactly the inserted integers,
\* each once, in ascending order
C1_ConcurrentSortedness ==
  (Quiescent /\ DisjointResidues) => KeysOf(Elems) = Ascending(KeysInserted)

\* a whole range 1..n went in, every thread having inserted its class
C1_Witness ==
  /\ Quiescent /\ DisjointResidues
  /\ KeysInserted = 1..Min(MaxCalls, MaxKey)
  /\ \A t \in Threads :
       t <= Min(MaxCalls, MaxKey) => \E c \in Started : callThread[c] = t
  /\ KeysOf(Elems) = Ascending(1..Min(MaxCalls, MaxKey))

\* C2: a get(q) called after an insert of an Equal element returned
\* Inserted returns Some of an element that compares Equal to q
C2_LookupConsistency ==
  \A t \in Threads :
    get[t].must =>
      /\ get[t].pc \in {"idle", "load"}
      /\ get[t].done => Cmp(get[t].q, get[t].res.key) = "Equal"

\* such a get returned while the splice of another insert was going on
C2_Witness ==
  \E t \in Threads :
    /\ get[t].done /\ get[t].must /\ get[t].raced
    /\ get[t].res.key = get[t].q
    /\ \E u \in Threads : u # t /\ ins[u].pc # "idle" /\ ins[u].elem.key # get[t].q

\* the calls given key k, and the nodes with key k linked into the bottom lane
CallsOf(k) == {c \in Started : keyOf[c] = k}
LinkedOf(k) == {i \in 1..Len(Elems) : Elems[i].key = k}

\* C3: of the insert calls with equal keys exactly one returns Inserted, every
\* other one returns AlreadyPresent with its own caller's element, and exactly
\* one node with that key is linked
C3_EqualKeysRace ==
  \A k \in Keys :
    /\ Cardinality({c \in CallsOf(k) : result[c] = "Inserted"}) <= 1
    /\ Cardinality(LinkedOf(k)) <= 1
    /\ \A c \in CallsOf(k) :
         result[c] = "AlreadyPresent" => retElem[c] = MkElem(k, c)
    /\ (CallsOf(k) # {} /\ \A c \in CallsOf(k) : result[c] # "none") =>
         /\ Cardinality({c \in CallsOf(k) : result[c] = "Inserted"}) = 1
         /\ Cardinality(LinkedOf(k)) = 1

\* a call lost the race after it had allocated its node: its first search
\* did not find the key, a later one did
C3_Witness ==
  \E c, d \in Started :
    /\ keyOf[c] = keyOf[d] /\ c \notin dupCalls /\ d \notin dupCalls
    /\ result[d] = "Inserted"
    /\ result[c] = "AlreadyPresent" /\ nodes[c].state = "freed"
    /\ retElem[c] = MkElem(keyOf[c], c)

\* C4: once every call has returned, the calls that returned Inserted are as
\* many as the distinct keys given
C4_Uniqueness ==
  Quiescent =>
    Cardinality({c \in Started : result[c] = "Inserted"}) = Cardinality(KeysInserted)

\* all calls made, some key given more than once
C4_Witness ==
  /\ Quiescent /\ ncalls = MaxCalls
  /\ Cardinality(KeysInserted) < ncalls
  /\ Cardinality({c \in Started : result[c] = "Inserted"}) = Cardinality(KeysInserted)

\* thread t takes a step of a call that was made on a key already present
DupStep(t) == ins[t].pc # "idle" /\ ins[t].call \in dupCalls /\ ins'[t] # ins[t]

\* C5: no step of an insert of a key already present writes a lane slot or
\* touches a node, elems() stays the same, and the call returns
\* AlreadyPresent with the caller's element
C5_ReinsertIdempotent ==
  [][\A t \in Threads :
       DupStep(t) =>
         /\ head' = head /\ nodes' = nodes /\ current_height' = current_height
         /\ ElemsOf(head', nodes') = Elems
         /\ ins'[t].pc \in {"load", "idle"}
         /\ ins'[t].pc = "idle" =>
              /\ result'[ins[t].call] = "AlreadyPresent"
              /\ retElem'[ins[t].call] = MkElem(keyOf[ins[t].call], ins[t].call)]_vars

\* such a call has returned, on a list that holds other elements as well
C5_Witness ==
  \E c \in dupCalls :
    /\ result[c] = "AlreadyPresent" /\ retElem[c] = MkElem(keyOf[c], c)
    /\ nodes[c].state = "none"
    /\ Len(Elems) >= 2

\* C6: in every state the bottom lane walked from the head is strictly
\* ascending (and so has no two Equal elements and no cycle)
C6_Sortedness ==
  /\ Len(Elems) <= MaxCalls
  /\ StrictlyAscending(KeysOf(Elems))

\* nodes are linked while an insert that lost a race is searching again
C6_Witness ==
  /\ Len(Elems) >= 2
  /\ \E t \in Threads : ins[t].pc = "load" /\ ins[t].new_node # NULL

\* the queries tried on a quiescent list: every key and one below, one above
Queries == 0..(MaxKey + 1)

\* what get(q) has to return on the current list: the linked element that
\* compares Equal to q, None (NoElem) when there is none
Expected(q) ==
  IF \E i \in 1..Len(Elems) : Elems[i].key = q
    THEN Elems[CHOOSE i \in 1..Len(Elems) : Elems[i].key = q]
    ELSE NoElem

\* C7: with no insert in flight get(q) returns the linked element that
\* compares Equal to q, and None when there is none: on every quiescent list
\* for every query, and for every get call during which no node was linked
C7_GetQuiescent ==
  /\ [](Quiescent =>
         \A q \in Queries :
           LET r == GetSeq(head, nodes, <<HEAD, 0>>, q)
           IN  r.done /\ r.res = Expected(q))
  /\ [][\A t \in Threads :
         (get[t].pc = "load" /\ get'[t].done /\ ~get'[t].raced) =>
            get'[t].res = Expected(get[t].q)]_vars

\* a list of nodes of different heights on which some queries hit and some miss
C7_Witness ==
  /\ Quiescent /\ Len(Elems) >= 2
  /\ \E t \in Threads : get[t].done /\ ~get[t].raced /\ get[t].res # NoElem
  /\ \E i, j \in 1..Len(Elems) :
       nodes[Elems[i].id].height < nodes[Elems[j].id].height
  /\ \E q \in Keys : GetSeq(head, nodes, <<HEAD, 0>>, q).res = NoElem
  /\ \E q \in Keys : GetSeq(head, nodes, <<HEAD, 0>>, q).res.key = q

\* the number of insert calls that have returned
Completed == Cardinality({c \in NodeIds : result[c] # "none"})
InFlight == \E t \in Threads : ins[t].pc # "idle"

\* C8: whenever an insert is in flight some insert completes later on, and
\* (the calls being finitely many) every call made returns
C8_LockFree ==
  /\ \A n \in 0..MaxCalls : (InFlight /\ Completed = n) ~> (Completed > n)
  /\ \A c \in NodeIds : (keyOf[c] # 0) ~> (result[c] # "none")

\* an insert that has linked its bottom lane lost the race for a higher
\* lane to an insert that has returned, and is searching again
C8_Witness ==
  \E t \in Threads, c \in Started :
    /\ ins[t].pc = "load" /\ ins[t].inserted > 0
    /\ c # ins[t].call /\ result[c] = "Inserted"

IsPrefix(a, b) == Len(a) <= Len(b) /\ \A i \in 1..Len(a) : a[i] = b[i]

\* C9: into_elems() yields the distinct keys inserted, each once, in
\* ascending order, every element being one whose insert returned Inserted,
\* and then ends
C9_DrainEquivalence ==
  /\ life \in {"drain", "drained"} =>
       /\ IsPrefix(KeysOf(yielded), Ascending(KeysInserted))
       /\ \A i \in 1..Len(yielded) : result[yielded[i].id] = "Inserted"
  /\ life = "drained" => KeysOf(yielded) = Ascending(KeysInserted)

\* a multiset with a repeated element was drained to the end
C9_Witness ==
  /\ life = "drained" /\ ncalls = MaxCalls
  /\ Len(yielded) >= 2 /\ Len(yielded) < ncalls

\* C10: after the drop every stored element was destroyed exactly once and
\* its node freed exactly once; an element handed back as AlreadyPresent was
\* not destroyed by the list
C10_DropRunsDestructors ==
  /\ \A c \in NodeIds : destroyed[c] <= 1 /\ nodes[c].frees <= 1
  /\ life = "dropped" =>
       \A c \in Started :
         /\ result[c] = "Inserted" => destroyed[c] = 1 /\ nodes[c].frees = 1
         /\ result[c] = "AlreadyPresent" => destroyed[c] = 0

\* a list of two or more elements was dropped after one insert was rejected
C10_Witness ==
  /\ life = "dropped"
  /\ Cardinality({c \in Started : destroyed[c] = 1}) >= 2
  /\ \E c \in Started : result[c] = "AlreadyPresent" /\ destroyed[c] = 0

\* the insert calls whose element IntoElems::next has handed to the caller
YieldedIds == {yielded[i].id : i \in 1..Len(yielded)}

\* C11: once the draining iterator was dropped, every node of the list has
\* been freed exactly once, and every element not yet yielded was destroyed
\* exactly once
C11_PartialDrainFreesRest ==
  life = "iter_dropped" =>
    \A c \in Started :
      result[c] = "Inserted" =>
        /\ nodes[c].frees = 1
        /\ c \notin YieldedIds => destroyed[c] = 1

\* C12: IntoElems::next frees the node of the element it yields exactly once
\* and does not itself run that element's destructor (the caller who received
\* the element runs it, once)
C12_NextTransfersOwnership ==
  life \in {"drain", "drained", "iter_dropped"} =>
    \A c \in YieldedIds :
      /\ nodes[c].frees = 1
      /\ destroyed[c] = 0

\* the keys a merge iterator has yielded, and whether element e is a node of
\* the left set
SetOutKeys == KeysOf(setIter.out)
FromLeft(e) == e.id <= Cardinality(setIter.L)

\* C13: difference yields exactly the elements of L that are not in R, in
\* ascending order, like the reference ordered set
C13_Difference ==
  setIter.op = "difference" =>
    /\ IsPrefix(SetOutKeys, Ascending(setIter.L \ setIter.R))
    /\ \A i \in 1..Len(setIter.out) : FromLeft(setIter.out[i])
    /\ setIter.ended => SetOutKeys = Ascending(setIter.L \ setIter.R)

\* a difference ran to its end on sets that overlap, R reaching below and
\* above an element that was yielded
C13_Witness ==
  /\ setIter.op = "difference" /\ setIter.ended
  /\ setIter.L \cap setIter.R # {}
  /\ \E k \in setIter.L \ setIter.R :
       (\E r \in setIter.R : r < k) /\ (\E r \in setIter.R : r > k)

\* C14: symmetric_difference yields exactly the elements in one of L, R but
\* not in both, in ascending order, like the reference ordered set
C14_SymmetricDifference ==
  setIter.op = "symmetric_difference" =>
    LET ref == Ascending((setIter.L \ setIter.R) \cup (setIter.R \ setIter.L))
    IN  /\ IsPrefix(SetOutKeys, ref)
        /\ setIter.ended => SetOutKeys = ref

\* a symmetric difference ran to its end and yielded from both sides, one
\* common element having been discarded
C14_Witness ==
  /\ setIter.op = "symmetric_difference" /\ setIter.ended
  /\ setIter.L \cap setIter.R # {}
  /\ \E i, j \in 1..Len(setIter.out) :
       FromLeft(setIter.out[i]) /\ ~FromLeft(setIter.out[j])

\* C15: intersection yields exactly the elements present in both L and R,
\* each once, in ascending order, and ends as soon as either side is
\* exhausted
C15_Intersection ==
  setIter.op = "intersection" =>
    /\ IsPrefix(SetOutKeys, Ascending(setIter.L \cap setIter.R))
    /\ \A i \in 1..Len(setIter.out) : FromLeft(setIter.out[i])
    /\ setIter.ended =>
         /\ SetOutKeys = Ascending(setIter.L \cap setIter.R)
         /\ setIter.left = NULL \/ setIter.right = NULL
    /\ (setIter.left = NULL \/ setIter.right = NULL) =>
         IntersectionNext(setIter.ns, setIter.left, setIter.right).ret = NoElem

\* an intersection ended with elements of one side never visited, after it
\* had yielded a common element and skipped elements of both sides
C15_Witness ==
  /\ setIter.op = "intersection" /\ setIter.ended
  /\ Len(setIter.out) >= 1
  /\ setIter.L \ setIter.R # {} /\ setIter.R \ setIter.L # {}
  /\ setIter.left # NULL \/ setIter.right # NULL

\* C16: union yields every element that is in L or in R, each once, an
\* element in both coming from L, in ascending order, and ends only when
\* both sides are exhausted
C16_Union ==
  setIter.op = "union" =>
    /\ IsPrefix(SetOutKeys, Ascending(setIter.L \cup setIter.R))
    /\ \A i \in 1..Len(setIter.out) :
         setIter.out[i].key \in setIter.L => FromLeft(setIter.out[i])
    /\ setIter.ended =>
         /\ SetOutKeys = Ascending(setIter.L \cup setIter.R)
         /\ setIter.left = NULL /\ setIter.right = NULL

\* a union ran to its end on sets that overlap and yielded from both sides
C16_Witness ==
  /\ setIter.op = "union" /\ setIter.ended
  /\ setIter.L \cap setIter.R # {}
  /\ \E i, j \in 1..Len(setIter.out) :
       FromLeft(setIter.out[i]) /\ ~FromLeft(setIter.out[j])

\* a step that is a call of next(), or of peek(), on the Elems iterator
ElemsNextCalled == elemsIt.live /\ ~elemsIt.ended /\ ~elemsIt'.peeked
                   /\ elemsIt' # elemsIt
ElemsPeekCalled == elemsIt.live /\ elemsIt'.peeked /\ elemsIt' # elemsIt

\* what that call of next() returned, NoElem for None
ElemsReturned ==
  IF elemsIt'.ended THEN NoElem ELSE elemsIt'.out[Len(elemsIt'.out)]

\* C17: a call of next() returns what the peeks since the call before it
\* returned (None when they returned None), and a peek changes neither the
\* iterator nor what it has yielded nor the list
C17_PeekIsNext ==
  [][/\ (ElemsNextCalled /\ elemsIt.peeked) => ElemsReturned = elemsIt.peek
     /\ ElemsPeekCalled =>
          /\ elemsIt'.ptr = elemsIt.ptr /\ elemsIt'.out = elemsIt.out
          /\ elemsIt'.ended = elemsIt.ended
          /\ elemsIt'.peek = ElemsNextElem(nodes, elemsIt.ptr)
          /\ head' = head /\ nodes' = nodes]_vars

\* an element was yielded by next() and the one after it has been peeked
C17_Witness ==
  /\ elemsIt.peeked /\ elemsIt.peek # NoElem
  /\ Len(elemsIt.out) >= 1
  /\ elemsIt.peek.key > elemsIt.out[Len(elemsIt.out)].key

\* the insert call of key k that returned Inserted (0 when there is none)
FirstInsert(k) ==
  IF \E c \in Started : keyOf[c] = k /\ result[c] = "Inserted"
    THEN CHOOSE c \in Started : keyOf[c] = k /\ result[c] = "Inserted"
    ELSE 0

\* the entry stored for key k in the list (hd, ns), NoElem when there is none
Stored(hd, ns, k) ==
  LET es == ElemsOf(hd, ns)
  IN  IF \E i \in 1..Len(es) : es[i].key = k
        THEN es[CHOOSE i \in 1..Len(es) : es[i].key = k]
        ELSE NoElem

\* C18: Map.insert(k, v2) on a map that holds an entry for k returns the
\* rejected (k, v2); no step changes the value stored for a key; a get(k)
\* called after insert(k, v1) returned None returns v1
C18_MapKeyOnly ==
  /\ [](/\ \A c \in dupCalls :
             result[c] # "none" =>
               /\ result[c] = "AlreadyPresent"
               /\ MapInsertReturn(retElem[c]) = <<keyOf[c], c>>
        /\ \A t \in Threads :
             (get[t].must /\ get[t].done) =>
               MapGetValue(get[t].res) = FirstInsert(get[t].q))
  /\ [][\A k \in Keys :
          Stored(head, nodes, k) # NoElem =>
            Stored(head', nodes', k) = Stored(head, nodes, k)]_vars

\* a second insert of a key was rejected and a get of that key has returned
\* the value of the first
C18_Witness ==
  \E c \in dupCalls, t \in Threads :
    /\ result[c] = "AlreadyPresent" /\ MapInsertReturn(retElem[c]) = <<keyOf[c], c>>
    /\ get[t].done /\ get[t].must /\ get[t].q = keyOf[c]
    /\ MapGetValue(get[t].res) # 0 /\ MapGetValue(get[t].res) # c

\* some lane slot of the head or of a live node points to node n
LinkedAnywhere(hd, ns, n) ==
  \/ \E i \in 0..(MAX_HEIGHT - 1) : hd[i] = n
  \/ \E m \in NodeIds :
       ns[m].state = "live" /\ \E x \in 0..(ns[m].height - 1) : ns[m].lanes[x] = n

\* C19: while the list is shared, a node is freed at most once; a freed node
\* is the scratch node of a call that returned AlreadyPresent with the
\* element that was in it, that call left no node behind, and no lane points
\* to a freed node; the step that frees a node finds it in no lane
C19_ScratchNodeFreed ==
  /\ [](life = "shared" =>
          \A c \in NodeIds :
            /\ nodes[c].frees <= 1
            /\ nodes[c].state = "freed" =>
                 /\ nodes[c].frees = 1
                 /\ result[c] = "AlreadyPresent" /\ retElem[c] = nodes[c].elem
                 /\ ~LinkedAnywhere(head, nodes, c)
            /\ (result[c] = "AlreadyPresent" /\ nodes[c].state # "none") =>
                 nodes[c].state = "freed")
  /\ [][life = "shared" =>
          \A c \in NodeIds :
            (nodes[c].state = "live" /\ nodes'[c].state = "freed") =>
              /\ ~LinkedAnywhere(head, nodes, c)
              /\ \E t \in Threads :
                   /\ ins[t].call = c /\ ins[t].new_node = c
                   /\ ins[t].inserted = 0 /\ ins'[t].pc = "idle"]_vars

\* a call whose compare_and_swap had failed found the key on its next search
\* and freed its node, which had been stored to but never linked
C19_Witness ==
  \E c \in Started :
    /\ life = "shared"
    /\ nodes[c].state = "freed" /\ nodes[c].frees = 1
    /\ result[c] = "AlreadyPresent" /\ retElem[c] = nodes[c].elem
    /\ \E x \in 0..(nodes[c].height - 1) : nodes[c].lanes[x] # NULL

\* the nodes of the lane of level l (1 is the bottom lane), walked from ptr;
\* a node too short to have that lane ends the walk with the marker -1
RECURSIVE LaneFrom(_, _, _, _)
LaneFrom(ns, ptr, l, fuel) ==
  IF ptr = NULL \/ fuel = 0 THEN {}
  ELSE IF ns[ptr].state # "live" \/ ns[ptr].height < l THEN {-1}
  ELSE {ptr} \cup LaneFrom(ns, ns[ptr].lanes[ns[ptr].height - l], l, fuel - 1)

Lane(l) == LaneFrom(nodes, head[MAX_HEIGHT - l], l, MaxCalls + 1)

\* C20: the nodes of every lane above the bottom are nodes of the lane below
\* it, and a node that a get stands on or has returned is on the bottom lane
C20_BottomUp ==
  /\ \A l \in 2..MAX_HEIGHT : Lane(l) \subseteq Lane(l - 1)
  /\ -1 \notin Lane(1)
  /\ \A t \in Threads :
       /\ (get[t].pc = "load" /\ get[t].lanes[1] # HEAD) => get[t].lanes[1] \in Lane(1)
       /\ (get[t].done /\ get[t].res # NoElem) => get[t].res.id \in Lane(1)

\* a get has returned a node that is linked into the bottom lane and not yet
\* into the higher lane it is going to be in
C20_Witness ==
  \E t, u \in Threads :
    /\ get[t].done /\ get[t].res # NoElem
    /\ ins[u].pc \in {"store", "cas", "load"} /\ ins[u].inserted = 1
    /\ ins[u].new_node = get[t].res.id
    /\ nodes[get[t].res.id].height >= 2
    /\ get[t].res.id \in Lane(1) /\ get[t].res.id \notin Lane(2)

\* the lane-l successor of a node that has that lane
LaneNext(ns, n, l) == ns[n].lanes[ns[n].height - l]

\* C21: when every insert has returned, every node of height h is on exactly
\* the lanes 1..h walked from the head, no lane reaches a node too short for
\* it, and along every lane each node is smaller than its successor
C21_ExactLanes ==
  Quiescent =>
    /\ \A l \in 1..MAX_HEIGHT : -1 \notin Lane(l)
    /\ \A n \in NodeIds : nodes[n].state = "live" =>
         \A l \in 1..MAX_HEIGHT : (n \in Lane(l)) <=> (l <= nodes[n].height)
    /\ \A l \in 1..MAX_HEIGHT : \A n \in Lane(l) \ {-1} :
         LaneNext(nodes, n, l) # NULL =>
           nodes[n].elem.key < nodes[LaneNext(nodes, n, l)].elem.key

\* the walk of thread t stands on a slot that points to the node t is linking
MeetsOwnNode(t) ==
  /\ ins[t].new_node # NULL
  /\ ins[t].it < OwnerHeight(nodes, ins[t].lanes[1])
  /\ LoadSlot(head, nodes, <<ins[t].lanes[1], ins[t].it>>) = ins[t].new_node

\* C22: a call that has linked a lane of its node does not return
\* AlreadyPresent; when its walk loads its own node it goes on to the store
\* of lane number inserted; and whenever it is about to store or CAS lane k,
\* k = inserted, the node is on the lanes 1..inserted and not on lane k + 1
C22_ResumeSplice ==
  /\ [](\A t \in Threads : ins[t].pc \in {"store", "cas"} =>
          /\ ins[t].k = ins[t].inserted
          /\ \A l \in 1..ins[t].inserted : ins[t].new_node \in Lane(l)
          /\ ins[t].new_node \notin Lane(ins[t].k + 1))
  /\ [][\A t \in Threads :
          /\ (ins[t].pc # "idle" /\ ins[t].inserted > 0) =>
               result'[ins[t].call] # "AlreadyPresent"
          /\ (ins[t].pc = "load" /\ ins[t].inserted > 0 /\ MeetsOwnNode(t)
                /\ ins'[t] # ins[t]) =>
               /\ ins'[t].pc = "store"
               /\ ins'[t].k = ins[t].inserted
               /\ ins'[t].inserted = ins[t].inserted]_vars

\* a call whose CAS failed above the bottom lane has searched again, met its
\* own node and is about to store the lane it had not linked yet
C22_Witness ==
  \E t \in Threads :
    /\ ins[t].pc = "store" /\ ins[t].inserted >= 1
    /\ ins[t].k = ins[t].inserted
    /\ MeetsOwnNode(t)

\* the lane of level l in the heap after the step
LaneAfter(l) == LaneFrom(nodes', head'[MAX_HEIGHT - l], l, MaxCalls + 1)

\* the nodes of the lane of level l that a walk standing on slot s of owner o
\* has still to pass, and the ones it reaches by following the lane from s
Ahead(o, l) ==
  {n \in Lane(l) \ {-1} : o = HEAD \/ nodes[n].elem.key > nodes[o].elem.key}
Reached(s, l) == LaneFrom(nodes, LoadSlot(head, nodes, s), l, MaxCalls + 1)

\* C23: when a call is about to CAS its node into a lane, that lane's pointer
\* of the node already holds the recorded successor; a node on a lane stays
\* on it in every later state; and a get or insert walking a lane reaches
\* from its slot every node of that lane that lies ahead of it
C23_NoTornStructure ==
  /\ [](\A t \in Threads :
          /\ ins[t].pc = "cas" =>
               LaneNext(nodes, ins[t].new_node, ins[t].k + 1) = ins[t].spots[ins[t].k].succ
          /\ ins[t].pc = "load" =>
               Ahead(ins[t].lanes[1], ins[t].height)
                 \subseteq Reached(<<ins[t].lanes[1], ins[t].it>>, ins[t].height)
          /\ get[t].pc = "load" =>
               Ahead(get[t].lanes[1], get[t].height)
                 \subseteq Reached(<<get[t].lanes[1], get[t].it>>, get[t].height))
  /\ [][\A l \in 1..MAX_HEIGHT : Lane(l) \subseteq LaneAfter(l)]_vars

\* a get stands between two linked nodes while an insert has stored the
\* successor into the lane of its node and is about to CAS it in before a
\* node that is already linked
C23_Witness ==
  \E t, u \in Threads :
    /\ get[t].pc = "load" /\ get[t].lanes[1] # HEAD
    /\ Ahead(get[t].lanes[1], get[t].height) # {}
    /\ ins[u].pc = "cas" /\ ins[u].spots[ins[u].k].succ # NULL
    /\ CasSucceeds(head, nodes, ins[u].spots[ins[u].k].pred, ins[u].spots[ins[u].k].succ)

\* C24: a call reaches Node::alloc only while it has no node; a call still
\* without a node that returns AlreadyPresent (its first search found an
\* Equal element) has allocated none; and when a call has returned its node
\* is linked (Inserted) or was never allocated or is freed (AlreadyPresent)
C24_AllocateOnDemand ==
  /\ [](\A t \in Threads :
          /\ ins[t].pc = "alloc" =>
               ins[t].new_node = NULL /\ nodes[ins[t].call].state = "none"
          /\ (ins[t].pc # "idle" /\ ins[t].new_node = NULL) =>
               nodes[ins[t].call].state = "none")
  /\ [](life = "shared" => \A c \in Started :
          /\ result[c] = "Inserted" =>
               nodes[c].state = "live" /\ c \in Lane(1)
          /\ result[c] = "AlreadyPresent" =>
               /\ nodes[c].state \in {"none", "freed"}
               /\ nodes[c].frees = (IF nodes[c].state = "freed" THEN 1 ELSE 0)
               /\ \A l \in 1..MAX_HEIGHT : c \notin Lane(l))
  /\ [][\A t \in Threads :
          (ins[t].pc = "load" /\ ins[t].new_node = NULL
             /\ result'[ins[t].call] = "AlreadyPresent") =>
            nodes'[ins[t].call].state = "none"]_vars

\* one call found the key in its first search and returned without a node;
\* another allocated a node, lost the race for the key, and freed the node
C24_Witness ==
  \E c, d \in Started :
    /\ result[c] = "AlreadyPresent" /\ nodes[c].state = "none"
    /\ result[d] = "AlreadyPresent" /\ nodes[d].state = "freed"

\* C25: current_height is at least the height of every node that is
\* allocated and not freed, hence of every node on a lane, in every state in
\* which the list is shared, and no step lowers it
C25_CurrentHeight ==
  /\ [](life = "shared" =>
          /\ \A n \in NodeIds : nodes[n].state = "live" =>
               nodes[n].height <= current_height
          /\ \A l \in 1..MAX_HEIGHT : \A n \in Lane(l) \ {-1} :
               nodes[n].height <= current_height)
  /\ [][current_height' >= current_height]_vars

\* a node of height 1 is linked after a node of height 2 was: fetch_max was
\* given a height below current_height
C25_Witness ==
  \E m, n \in NodeIds :
    /\ m < n /\ result[m] = "Inserted" /\ result[n] = "Inserted"
    /\ nodes[m].height = MAX_HEIGHT /\ nodes[n].height < MAX_HEIGHT
    /\ n \in Lane(1) /\ m \in Lane(MAX_HEIGHT)
    /\ current_height = MAX_HEIGHT

\* C26: on the heap of every state in which the list is shared, inserts in
\* flight or not, get on the head lanes trimmed to current_height returns
\* for every query what get on all MAX_HEIGHT head lanes returns; and a get
\* entered on trimmed lanes for a key whose insert had returned finds it
C26_TrimmedGet ==
  /\ life = "shared" =>
       \A q \in Queries :
         LET trimmed == GetSeq(head, nodes, <<HEAD, MAX_HEIGHT - current_height>>, q)
             full    == GetSeq(head, nodes, <<HEAD, 0>>, q)
         IN  trimmed.done /\ full.done /\ trimmed.res = full.res
  /\ \A t \in Threads :
       (get[t].trim /\ get[t].must) =>
         /\ get[t].pc \in {"idle", "load"}
         /\ get[t].done => Cmp(get[t].q, get[t].res.key) = "Equal"

\* a get entered on fewer than MAX_HEIGHT lanes has found its key although a
\* node of full height was linked into the top lane while it was running
C26_Witness ==
  \E t \in Threads :
    /\ get[t].trim /\ get[t].must /\ get[t].done /\ get[t].raced
    /\ get[t].res.key = get[t].q
    /\ current_height = MAX_HEIGHT
    /\ \E n \in Lane(MAX_HEIGHT) : n # -1 /\ n # get[t].res.id

\* where the walk of the get of thread t stands
GetPos(G) == <<G.pc, G.lanes, G.it, G.height>>

\* the key of the owner of a lane slice, the head being below every key
OwnerKey(ns, o) == IF o = HEAD THEN 0 ELSE ns[o].elem.key

\* C27: every step of a get leaves the head and all nodes as they are and
\* either returns, or goes down one lane of the same node, or goes across on
\* the same level to a node with a greater key that is below the query; and
\* a get that goes on taking steps returns, whatever the inserts do
C27_GetWaitFree ==
  /\ [][\A t \in Threads :
          (get[t].pc = "load" /\ GetPos(get'[t]) # GetPos(get[t])) =>
            /\ head' = head /\ nodes' = nodes /\ current_height' = current_height
            /\ \/ get'[t].done /\ get'[t].pc = "idle"
               \/ /\ get'[t].pc = "load"
                  /\ get'[t].lanes = get[t].lanes
                  /\ get'[t].it = get[t].it + 1
                  /\ get'[t].height = get[t].height - 1
               \/ /\ get'[t].pc = "load"
                  /\ get'[t].height = get[t].height
                  /\ get'[t].lanes[1] # HEAD
                  /\ OwnerKey(nodes, get'[t].lanes[1]) > OwnerKey(nodes, get[t].lanes[1])
                  /\ OwnerKey(nodes, get'[t].lanes[1]) < get[t].q]_vars
  /\ \A t \in Threads : (get[t].pc = "load") ~> get[t].done

\* a get has gone across to a node and has returned after a concurrent
\* insert linked a node while it was running
C27_Witness ==
  \E t \in Threads :
    /\ get[t].done /\ get[t].raced
    /\ get[t].lanes[1] # HEAD
    /\ \E u \in Threads : ins[u].pc \in {"load", "store", "cas"}

\* the spot the splice of thread t is about to use
Spot(t) == ins[t].spots[ins[t].k]

SliceFits(W) ==
  /\ W.height >= 1
  /\ 0 <= W.lanes[2] /\ W.lanes[2] <= W.it
  /\ W.it < OwnerHeight(nodes, W.lanes[1])
  /\ OwnerHeight(nodes, W.lanes[1]) - W.it = W.height

\* the node the walk with locals W is about to load is one it steps into
StepsInto(W, key) ==
  /\ LoadSlot(head, nodes, <<W.lanes[1], W.it>>) # NULL
  /\ nodes[LoadSlot(head, nodes, <<W.lanes[1], W.it>>)].elem.key < key

\* C29: no walk panics on the subtraction; at every load of get and of
\* insert, first walk or retry from init_lanes, the slots left in the lane
\* array are exactly height many; and a node about to be stepped into is at
\* least as high as the walk, so that its height minus the walk's is an
\* index of its lane array
C29_StepAcrossIndex ==
  \A t \in Threads :
    /\ ins[t].pc # "panic" /\ get[t].pc # "panic"
    /\ ins[t].pc = "load" =>
         /\ SliceFits(ins[t])
         /\ StepsInto(ins[t], ElemRef(nodes, ins[t]).key) =>
              LET n == LoadSlot(head, nodes, <<ins[t].lanes[1], ins[t].it>>)
              IN  /\ nodes[n].height >= ins[t].height
                  /\ nodes[n].height - ins[t].height < nodes[n].height
    /\ get[t].pc = "load" =>
         /\ SliceFits(get[t])
         /\ StepsInto(get[t], get[t].q) =>
              LET n == LoadSlot(head, nodes, <<get[t].lanes[1], get[t].it>>)
              IN  /\ nodes[n].height >= get[t].height
                  /\ nodes[n].height - get[t].height < nodes[n].height

\* an insert whose CAS failed has restarted from its saved init_lanes and,
\* below the top level, is about to step into a node higher than its level
\* (the node of an insert still in flight): its walk resumes at an index
\* above 0 of that node's lane array
C29_Witness ==
  \E t, u \in Threads :
    /\ ins[u].pc = "load" /\ ins[u].new_node # NULL
    /\ StepsInto(ins[u], ElemRef(nodes, ins[u]).key)
    /\ LoadSlot(head, nodes, <<ins[u].lanes[1], ins[u].it>>) = ins[t].new_node
    /\ nodes[ins[t].new_node].height > ins[u].height
====
